---- MODULE Spec2Model ----
(***************************************************************************)
(* The two routing simulators of the repository, distvec (distance vector, *)
(* src/distvec.cpp) and linkstate (Dijkstra, src/linkstate.cpp), run on    *)
(* the same topology, change and message files.                            *)
(*                                                                         *)
(* map<int, Node> is a function from node id to the node's adjacency, a    *)
(* function from neighbour id to edge cost (Edge.to always equals its key  *)
(* and Node.id is never read).  map<int, map<int,int>> is a function of    *)
(* functions.  A std::map is iterated in ascending key order.              *)
(***************************************************************************)
EXTENDS Integers, Sequences, FiniteSets, TLC

\* Bounds of the model.
NumIds == 3
MaxCost == 2
MaxTopoLines == 3
MaxInputLines == 2

\* Program constants.
INF == 2147483647
REMOVE == -999
NONE == -1

Ids == 1..NumIds
Costs == 0..MaxCost

VARIABLES
    topo0,      \* the topology as parsed from the topology file (input, never changed)
    changes,    \* the change file: a sequence of <<from, to, cost>>
    messages,   \* the message file: a sequence of <<src, dst>> (the text is not modelled)
    turn,       \* which program takes the next step
    dvNodes,    \* distvec: main's nodes
    dist,       \* distvec: main's dist
    nextHop,    \* distvec: main's nextHop
    dvPc,       \* distvec: position in main
    dvK,        \* distvec: number of changes applied
    dvSnaps,    \* distvec: number of forwarding-table snapshots written
    dvLines,    \* distvec: what the last writeMessages call wrote
    lsNodes,    \* linkstate: main's nodes
    routeNext,  \* linkstate: main's routeNext
    routeCost,  \* linkstate: main's routeCost
    lsPc,       \* linkstate: position in main
    lsK,        \* linkstate: number of changes applied
    lsSnaps,    \* linkstate: number of forwarding-table snapshots written
    lsLines     \* linkstate: what the last writeMessages call wrote

inputs == <<topo0, changes, messages>>
dvVars == <<dvNodes, dist, nextHop, dvPc, dvK, dvSnaps, dvLines>>
lsVars == <<lsNodes, routeNext, routeCost, lsPc, lsK, lsSnaps, lsLines>>
vars == <<topo0, changes, messages, turn, dvNodes, dist, nextHop, dvPc, dvK,
          dvSnaps, dvLines, lsNodes, routeNext, routeCost, lsPc, lsK, lsSnaps,
          lsLines>>

----------------------------------------------------------------------------
\* std::map helpers

EmptyMap == [x \in {} |-> 0]

\* m[k] = v of a std::map: inserts or overwrites.
Put(m, k, v) == [x \in DOMAIN m \cup {k} |-> IF x = k THEN v ELSE m[x]]

\* m.erase(k)
Erase(m, k) == [x \in DOMAIN m \ {k} |-> m[x]]

\* m[k] read through operator[]: a missing key reads as the default value.
Get(m, k, default) == IF k \in DOMAIN m THEN m[k] ELSE default

SetMin(S) == CHOOSE x \in S : \A y \in S : x <= y

\* The keys of a std::map<int, T> in iteration order.
RECURSIVE SortedSeq(_)
SortedSeq(S) ==
    IF S = {} THEN <<>>
    ELSE LET m == SetMin(S) IN <<m>> \o SortedSeq(S \ {m})

----------------------------------------------------------------------------
\* Topology store (the same code in both programs)

\* nodes[a] through operator[]: creates node a, with no edges, when absent.
Touch(nodes, a) == IF a \in DOMAIN nodes THEN nodes ELSE Put(nodes, a, EmptyMap)

\* nodes[from].edges[to] = {to, cost}; nodes[to].edges[from] = {from, cost};
upsertEdge(nodes, from, to, cost) ==
    LET n1 == Touch(nodes, from)
        n2 == [n1 EXCEPT ![from] = Put(@, to, cost)]
        n3 == Touch(n2, to)
    IN  [n3 EXCEPT ![to] = Put(@, from, cost)]

\* nodes[from].edges.erase(to); nodes[to].edges.erase(from);
removeEdge(nodes, from, to) ==
    LET n1 == Touch(nodes, from)
        n2 == [n1 EXCEPT ![from] = Erase(@, to)]
        n3 == Touch(n2, to)
    IN  [n3 EXCEPT ![to] = Erase(@, from)]

\* One iteration of main's change loop on the topology.
applyChange(nodes, c) ==
    IF c[3] = REMOVE THEN removeEdge(nodes, c[1], c[2])
    ELSE upsertEdge(nodes, c[1], c[2], c[3])

RECURSIVE parseTopologyFile(_, _)
parseTopologyFile(file, nodes) ==
    IF file = <<>> THEN nodes
    ELSE parseTopologyFile(Tail(file),
                           upsertEdge(nodes, Head(file)[1], Head(file)[2], Head(file)[3]))

----------------------------------------------------------------------------
\* distvec: distance-vector solver

\* main's initialisation of dist and nextHop before the first run.
InitDist(nodes) ==
    [i \in DOMAIN nodes |->
        [k \in DOMAIN nodes \cup DOMAIN nodes[i] |->
            IF k \in DOMAIN nodes[i] THEN nodes[i][k]
            ELSE IF i = k THEN 0 ELSE INF]]

InitNextHop(nodes) ==
    [i \in DOMAIN nodes |->
        [k \in DOMAIN nodes \cup DOMAIN nodes[i] |->
            IF k \in DOMAIN nodes[i] THEN k
            ELSE IF i = k THEN i ELSE NONE]]

\* A faulty re-initialisation: only the entries of the current neighbours are
\* assigned, the others keep the value of the previous run.
ReInitDistPatch(nodes, old) ==
    [i \in DOMAIN old \cup DOMAIN nodes |->
        IF i \notin DOMAIN nodes THEN old[i]
        ELSE [k \in DOMAIN Get(old, i, EmptyMap) \cup DOMAIN nodes \cup DOMAIN nodes[i] |->
                IF k \in DOMAIN nodes[i] THEN nodes[i][k]
                ELSE IF k \in DOMAIN Get(old, i, EmptyMap) THEN old[i][k]
                ELSE IF i = k THEN 0 ELSE INF]]

\* main's re-initialisation after a change: the same assignments, made in
\* place on the maps of the previous run.
ReInitDist(nodes, old) ==
    [i \in DOMAIN old \cup DOMAIN nodes |->
        IF i \notin DOMAIN nodes THEN old[i]
        ELSE [k \in DOMAIN Get(old, i, EmptyMap) \cup DOMAIN nodes \cup DOMAIN nodes[i] |->
                IF k \in DOMAIN nodes[i] THEN nodes[i][k]
                ELSE IF k \in DOMAIN nodes THEN (IF i = k THEN 0 ELSE INF)
                ELSE old[i][k]]]

ReInitNextHop(nodes, old) ==
    [i \in DOMAIN old \cup DOMAIN nodes |->
        IF i \notin DOMAIN nodes THEN old[i]
        ELSE [k \in DOMAIN Get(old, i, EmptyMap) \cup DOMAIN nodes \cup DOMAIN nodes[i] |->
                IF k \in DOMAIN nodes[i] THEN k
                ELSE IF k \in DOMAIN nodes THEN (IF i = k THEN i ELSE NONE)
                ELSE old[i][k]]]

\* A faulty loop body: the tie-break branch is missing.
RelaxDestNoTieBreak(st, i, j, k) ==
    LET dij == st.dist[i][j]
        djk == st.dist[j][k]
        cur == st.dist[i][k]
    IN  IF dij < cur - djk
        THEN [dist |-> [st.dist EXCEPT ![i][k] = dij + djk],
              nextHop |-> [st.nextHop EXCEPT ![i][k] = st.nextHop[i][j]],
              updated |-> TRUE]
        ELSE st

\* The body of the innermost loop.  alt is computed in long long, so that
\* dist[i][j] + INF does not wrap; the comparisons are written without the sum.
RelaxDest(st, i, j, k) ==
    LET dij == st.dist[i][j]
        djk == st.dist[j][k]
        cur == st.dist[i][k]
    IN  IF dij < cur - djk
        THEN [dist |-> [st.dist EXCEPT ![i][k] = dij + djk],
              nextHop |-> [st.nextHop EXCEPT ![i][k] = st.nextHop[i][j]],
              updated |-> TRUE]
        ELSE IF dij = cur - djk /\ st.nextHop[i][j] # NONE
                /\ st.nextHop[i][j] < st.nextHop[i][k]
        THEN [dist |-> st.dist,
              nextHop |-> [st.nextHop EXCEPT ![i][k] = st.nextHop[i][j]],
              updated |-> TRUE]
        ELSE st

RECURSIVE RelaxDests(_, _, _, _)
RelaxDests(st, i, j, ks) ==
    IF ks = <<>> THEN st
    ELSE RelaxDests(RelaxDest(st, i, j, Head(ks)), i, j, Tail(ks))

RECURSIVE RelaxNeighbors(_, _, _, _)
RelaxNeighbors(st, i, js, ks) ==
    IF js = <<>> THEN st
    ELSE LET j == Head(js)
             st1 == IF st.dist[i][j] = INF THEN st ELSE RelaxDests(st, i, j, ks)
         IN  RelaxNeighbors(st1, i, Tail(js), ks)

RECURSIVE RelaxNodes(_, _, _, _)
RelaxNodes(st, nodes, is, ks) ==
    IF is = <<>> THEN st
    ELSE LET i == Head(is)
             st1 == RelaxNeighbors(st, i, SortedSeq(DOMAIN nodes[i]), ks)
         IN  RelaxNodes(st1, nodes, Tail(is), ks)

\* One pass of the outer for loop.
Pass(st, nodes) ==
    RelaxNodes([st EXCEPT !.updated = FALSE], nodes,
               SortedSeq(DOMAIN nodes), SortedSeq(DOMAIN nodes))

RECURSIVE Iterate(_, _, _)
Iterate(st, nodes, iter) ==
    IF iter < Cardinality(DOMAIN nodes) - 1 /\ st.updated
    THEN Iterate(Pass(st, nodes), nodes, iter + 1)
    ELSE st

\* A faulty solver: updated starts false, so no pass runs.
runDistanceVectorNoPass(nodes, d, nh) ==
    Iterate([dist |-> d, nextHop |-> nh, updated |-> FALSE], nodes, 0)

runDistanceVector(nodes, d, nh) ==
    Iterate([dist |-> d, nextHop |-> nh, updated |-> TRUE], nodes, 0)

----------------------------------------------------------------------------
\* distvec: path resolver

Line(kind, path, cost) == [kind |-> kind, path |-> path, cost |-> cost]

InSeq(x, s) == \E n \in 1..Len(s) : s[n] = x

\* The while loop of writeMessages.  A current node that is already on the
\* path makes the loop run for ever; map::at of a missing key throws.
RECURSIVE dvWalk(_, _, _, _)
dvWalk(nh, dst, current, path) ==
    IF current = dst \/ current = NONE THEN [kind |-> "end", current |-> current, path |-> path]
    ELSE IF InSeq(current, path) THEN [kind |-> "hang", current |-> current, path |-> path]
    ELSE IF current \notin DOMAIN nh \/ dst \notin DOMAIN nh[current]
    THEN [kind |-> "abort", current |-> current, path |-> path]
    ELSE dvWalk(nh, dst, nh[current][dst], Append(path, current))

\* A faulty resolver: the destination is not appended to the path.
dvResolveNoDestination(d, nh, src, dst) ==
    IF src \notin DOMAIN d \/ dst \notin DOMAIN d[src] THEN Line("abort", <<>>, 0)
    ELSE IF d[src][dst] = INF THEN Line("unreachable", <<>>, 0)
    ELSE LET w == dvWalk(nh, dst, src, <<>>)
         IN  IF w.kind # "end" THEN Line(w.kind, <<>>, 0)
             ELSE IF w.current = dst THEN Line("hops", w.path, d[src][dst])
             ELSE Line("unreachable", <<>>, 0)

\* What writeMessages does for one message line.
dvResolve(d, nh, src, dst) ==
    IF src \notin DOMAIN d \/ dst \notin DOMAIN d[src] THEN Line("abort", <<>>, 0)
    ELSE IF d[src][dst] = INF THEN Line("unreachable", <<>>, 0)
    ELSE LET w == dvWalk(nh, dst, src, <<>>)
         IN  IF w.kind # "end" THEN Line(w.kind, <<>>, 0)
             ELSE IF w.current = dst THEN Line("hops", Append(w.path, dst), d[src][dst])
             ELSE Line("unreachable", <<>>, 0)

\* writeMessages over the message list: the lines written, up to and
\* including the one on which the program throws or hangs.
RECURSIVE dvWriteLines(_, _, _, _)
dvWriteLines(d, nh, msgs, lines) ==
    IF msgs = <<>> THEN lines
    ELSE LET l == dvResolve(d, nh, Head(msgs)[1], Head(msgs)[2])
         IN  IF l.kind \in {"abort", "hang"} THEN Append(lines, l)
             ELSE dvWriteLines(d, nh, Tail(msgs), Append(lines, l))

----------------------------------------------------------------------------
\* linkstate: link-state solver

\* priority_queue.begin(): the least (cost, node) pair.
PQMin(pq) ==
    CHOOSE p \in pq : \A q \in pq : p[1] < q[1] \/ (p[1] = q[1] /\ p[2] <= q[2])

\* The body of the loop over u's edges.
RelaxEdge(st, nodes, id, u, v) ==
    LET alt == st.dist[u] + nodes[u][v]
    IN  IF alt < st.dist[v] \/ (alt = st.dist[v] /\ u < Get(st.prevHop, v, 0))
        THEN [dist |-> [st.dist EXCEPT ![v] = alt],
              nextHop |-> Put(st.nextHop, v, IF u = id THEN v ELSE Get(st.nextHop, u, 0)),
              prevHop |-> Put(st.prevHop, v, u),
              pq |-> (st.pq \ {<<st.dist[v], v>>}) \cup {<<alt, v>>}]
        ELSE st

RECURSIVE RelaxEdges(_, _, _, _, _)
RelaxEdges(st, nodes, id, u, vs) ==
    IF vs = <<>> THEN st
    ELSE RelaxEdges(RelaxEdge(st, nodes, id, u, Head(vs)), nodes, id, u, Tail(vs))

\* The while loop over the priority queue.
RECURSIVE DijkstraLoop(_, _, _)
DijkstraLoop(st, nodes, id) ==
    IF st.pq = {} THEN st
    ELSE LET p == PQMin(st.pq)
             u == p[2]
             st1 == [st EXCEPT !.pq = @ \ {p}]
         IN  DijkstraLoop(RelaxEdges(st1, nodes, id, u, SortedSeq(DOMAIN nodes[u])),
                          nodes, id)

\* The shortest paths from node id: the maps dist and nextHop when the loop ends.
Dijkstra(nodes, id) ==
    DijkstraLoop([dist |-> [n \in DOMAIN nodes |-> IF n = id THEN 0 ELSE INF],
                  nextHop |-> Put(EmptyMap, id, id),
                  prevHop |-> Put(EmptyMap, id, id),
                  pq |-> {<<0, id>>}],
                 nodes, id)

\* A faulty store: the new entries are merged into the node's old map, so an
\* entry the new run does not compute survives.
StoreRoutesMerge(nodes, old, field) ==
    [id \in DOMAIN old \cup DOMAIN nodes |->
        IF id \in DOMAIN nodes
        THEN LET new == IF field = "cost" THEN Dijkstra(nodes, id).dist
                        ELSE Dijkstra(nodes, id).nextHop
                 was == Get(old, id, EmptyMap)
             IN  [k \in DOMAIN was \cup DOMAIN new |->
                     IF k \in DOMAIN new THEN new[k] ELSE was[k]]
        ELSE old[id]]

\* routeNext[id] = nextHop; routeCost[id] = dist; for every node id.
StoreRoutes(nodes, old, field) ==
    [id \in DOMAIN old \cup DOMAIN nodes |->
        IF id \in DOMAIN nodes
        THEN (IF field = "cost" THEN Dijkstra(nodes, id).dist ELSE Dijkstra(nodes, id).nextHop)
        ELSE old[id]]

writeForwardingTable(nodes, rNext, rCost) ==
    [routeNext |-> StoreRoutes(nodes, rNext, "next"),
     routeCost |-> StoreRoutes(nodes, rCost, "cost")]

----------------------------------------------------------------------------
\* linkstate: path resolver

RECURSIVE lsWalk(_, _, _, _)
lsWalk(rNext, dst, current, path) ==
    IF current = dst THEN [kind |-> "end", pathExists |-> TRUE, path |-> path]
    ELSE IF InSeq(current, path) THEN [kind |-> "hang", pathExists |-> TRUE, path |-> path]
    ELSE IF current \notin DOMAIN rNext THEN [kind |-> "abort", pathExists |-> TRUE, path |-> path]
    ELSE IF dst \notin DOMAIN rNext[current]
    THEN [kind |-> "end", pathExists |-> FALSE, path |-> Append(path, current)]
    ELSE lsWalk(rNext, dst, rNext[current][dst], Append(path, current))

lsResolve(rNext, rCost, src, dst) ==
    LET w == lsWalk(rNext, dst, src, <<>>)
    IN  IF w.kind # "end" THEN Line(w.kind, <<>>, 0)
        ELSE IF ~w.pathExists THEN Line("unreachable", <<>>, 0)
        ELSE IF src \notin DOMAIN rCost \/ dst \notin DOMAIN rCost[src]
        THEN Line("abort", <<>>, 0)
        ELSE Line("hops", w.path, rCost[src][dst])

RECURSIVE lsWriteLines(_, _, _, _)
lsWriteLines(rNext, rCost, msgs, lines) ==
    IF msgs = <<>> THEN lines
    ELSE LET l == lsResolve(rNext, rCost, Head(msgs)[1], Head(msgs)[2])
         IN  IF l.kind \in {"abort", "hang"} THEN Append(lines, l)
             ELSE lsWriteLines(rNext, rCost, Tail(msgs), Append(lines, l))

----------------------------------------------------------------------------
\* The input files

SeqsUpTo(S, n) == UNION {[1..m -> S] : m \in 0..n}

\* Topology lines: a link between two distinct nodes with a non-negative cost.
\* A line "b a c" acts as "a b c" does, and a link from a node to itself is no
\* edge of the graph, so lines are drawn with a < b.
TopoLines == {l \in Ids \X Ids \X Costs : l[1] < l[2]}

\* Change lines: a new cost for the pair, or REMOVE.
ChangeLines == {l \in Ids \X Ids \X (Costs \cup {REMOVE}) : l[1] < l[2]}

\* Message lines: source and destination; an id no topology line names is an
\* unknown node.
MessageLines == Ids \X Ids

Topologies == {parseTopologyFile(f, EmptyMap) : f \in SeqsUpTo(TopoLines, MaxTopoLines)}

----------------------------------------------------------------------------
\* The two programs

Stopped(pc) == pc \in {"done", "aborted", "hung"}

\* The position after writeMessages wrote lines.
AfterMessages(lines, k) ==
    IF lines # <<>> /\ lines[Len(lines)].kind = "abort" THEN "aborted"
    ELSE IF lines # <<>> /\ lines[Len(lines)].kind = "hang" THEN "hung"
    ELSE IF k < Len(changes) THEN "change" ELSE "done"

Init ==
    /\ topo0 \in Topologies
    /\ \E nc \in 0..MaxInputLines :
          /\ changes \in [1..nc -> ChangeLines]
          /\ messages \in SeqsUpTo(MessageLines, MaxInputLines - nc)
    /\ turn = "dv"
    /\ dvNodes = topo0
    /\ dist = EmptyMap
    /\ nextHop = EmptyMap
    /\ dvPc = "start"
    /\ dvK = 0
    /\ dvSnaps = 0
    /\ dvLines = <<>>
    /\ lsNodes = topo0
    /\ routeNext = EmptyMap
    /\ routeCost = EmptyMap
    /\ lsPc = "start"
    /\ lsK = 0
    /\ lsSnaps = 0
    /\ lsLines = <<>>

\* distvec main: initialise dist and nextHop, run the solver, write the table.
dvInitialRun ==
    /\ turn = "dv"
    /\ dvPc = "start"
    /\ LET r == runDistanceVector(dvNodes, InitDist(dvNodes), InitNextHop(dvNodes))
       IN  /\ dist' = r.dist
           /\ nextHop' = r.nextHop
    /\ dvSnaps' = dvSnaps + 1
    /\ dvPc' = "msgs"
    /\ turn' = IF Stopped(lsPc) THEN "dv" ELSE "ls"
    /\ UNCHANGED <<inputs, dvNodes, dvK, dvLines, lsVars>>

\* distvec writeMessages, after the initial run and after each change.
dvWriteMessages ==
    /\ turn = "dv"
    /\ dvPc = "msgs"
    /\ dvLines' = dvWriteLines(dist, nextHop, messages, <<>>)
    /\ dvPc' = AfterMessages(dvLines', dvK)
    /\ turn' = IF Stopped(lsPc) THEN "dv" ELSE "ls"
    /\ UNCHANGED <<inputs, dvNodes, dist, nextHop, dvK, dvSnaps, lsVars>>

\* distvec main: one iteration of the change loop, up to writeForwardingTable.
dvApplyChange ==
    /\ turn = "dv"
    /\ dvPc = "change"
    /\ dvNodes' = applyChange(dvNodes, changes[dvK + 1])
    /\ LET r == runDistanceVector(dvNodes', ReInitDist(dvNodes', dist),
                                  ReInitNextHop(dvNodes', nextHop))
       IN  /\ dist' = r.dist
           /\ nextHop' = r.nextHop
    /\ dvK' = dvK + 1
    /\ dvSnaps' = dvSnaps + 1
    /\ dvPc' = "msgs"
    /\ turn' = IF Stopped(lsPc) THEN "dv" ELSE "ls"
    /\ UNCHANGED <<inputs, dvLines, lsVars>>

\* linkstate main: the initial writeForwardingTable.
lsInitialRun ==
    /\ turn = "ls"
    /\ lsPc = "start"
    /\ LET r == writeForwardingTable(lsNodes, routeNext, routeCost)
       IN  /\ routeNext' = r.routeNext
           /\ routeCost' = r.routeCost
    /\ lsSnaps' = lsSnaps + 1
    /\ lsPc' = "msgs"
    /\ turn' = IF Stopped(dvPc) THEN "ls" ELSE "dv"
    /\ UNCHANGED <<inputs, lsNodes, lsK, lsLines, dvVars>>

\* linkstate writeMessages.
lsWriteMessages ==
    /\ turn = "ls"
    /\ lsPc = "msgs"
    /\ lsLines' = lsWriteLines(routeNext, routeCost, messages, <<>>)
    /\ lsPc' = AfterMessages(lsLines', lsK)
    /\ turn' = IF Stopped(dvPc) THEN "ls" ELSE "dv"
    /\ UNCHANGED <<inputs, lsNodes, routeNext, routeCost, lsK, lsSnaps, dvVars>>

\* linkstate main: one iteration of the change loop, up to writeForwardingTable.
lsApplyChange ==
    /\ turn = "ls"
    /\ lsPc = "change"
    /\ lsNodes' = applyChange(lsNodes, changes[lsK + 1])
    /\ LET r == writeForwardingTable(lsNodes', routeNext, routeCost)
       IN  /\ routeNext' = r.routeNext
           /\ routeCost' = r.routeCost
    /\ lsK' = lsK + 1
    /\ lsSnaps' = lsSnaps + 1
    /\ lsPc' = "msgs"
    /\ turn' = IF Stopped(dvPc) THEN "ls" ELSE "dv"
    /\ UNCHANGED <<inputs, lsLines, dvVars>>

Next ==
    \/ dvInitialRun
    \/ dvWriteMessages
    \/ dvApplyChange
    \/ lsInitialRun
    \/ lsWriteMessages
    \/ lsApplyChange

Spec == Init /\ [][Next]_vars

----------------------------------------------------------------------------
\* Reference notions of the claims: graph distance, first hops, connectivity.

\* Every edge of the topology has a cost above zero.
Positive(nodes) == \A a \in DOMAIN nodes : \A b \in DOMAIN nodes[a] : nodes[a][b] > 0

\* The least total cost of a path from i to k that visits no node twice and no
\* node of avoid; INF when there is none.
RECURSIVE MinCost(_, _, _, _)
MinCost(nodes, i, k, avoid) ==
    IF i = k THEN 0
    ELSE SetMin({INF} \cup
                {LET rest == MinCost(nodes, j, k, avoid \cup {i})
                 IN  IF rest = INF THEN INF ELSE nodes[i][j] + rest :
                 j \in DOMAIN nodes[i] \ (avoid \cup {i})})

ShortestDist(nodes, i, k) == MinCost(nodes, i, k, {})

Connected(nodes, i, k) == ShortestDist(nodes, i, k) < INF

\* The neighbours h of i for which some shortest path from i to k (a path visits
\* no node twice) starts with the edge i-h.
FirstHops(nodes, i, k) ==
    {h \in DOMAIN nodes[i] \ {i} :
        LET rest == MinCost(nodes, h, k, {i})
        IN  rest < INF /\ nodes[i][h] + rest = ShortestDist(nodes, i, k)}

\* The total cost of the edges along a hop sequence.
RECURSIVE PathCost(_, _)
PathCost(nodes, path) ==
    IF Len(path) < 2 THEN 0
    ELSE nodes[path[1]][path[2]] + PathCost(nodes, Tail(path))

\* A hop sequence that follows edges of the topology.
IsWalk(nodes, path) ==
    \A n \in 1..(Len(path) - 1) : path[n] \in DOMAIN nodes /\ path[n + 1] \in DOMAIN nodes[path[n]]

dvSolved == dvPc # "start"
lsSolved == lsPc # "start"

\* writeMessages has run on the current routing state.
dvWritten == dvPc \in {"change", "done", "aborted", "hung"}
lsWritten == lsPc \in {"change", "done", "aborted", "hung"}

\* The topology after the first k changes of the change file, in file order.
RECURSIVE Fold(_, _, _)
Fold(nodes, cs, k) == IF k = 0 THEN nodes ELSE applyChange(Fold(nodes, cs, k - 1), cs[k])

HasEdge(nodes, a, b) == a \in DOMAIN nodes /\ b \in DOMAIN nodes[a]

\* The neighbours h of i through which k is reached at the least cost.
Candidates(nodes, i, k) ==
    {h \in DOMAIN nodes[i] :
        /\ ShortestDist(nodes, h, k) < INF
        /\ nodes[i][h] + ShortestDist(nodes, h, k) = ShortestDist(nodes, i, k)}

\* The source and destination of the n-th message line.
Src(n) == messages[n][1]
Dst(n) == messages[n][2]

\* The hop sequence of a linkstate trace line, with the destination put back.
lsFullWalk(n) == Append(lsLines[n].path, Dst(n))

----------------------------------------------------------------------------
\* Claims

\* C1: in both programs, for every pair (src, dst) whose computed cost is
\* finite, the resolver's walk along nextHop reaches dst within N hops, so the
\* loop of writeMessages ends, and the edges walked cost cost[src][dst] in
\* total; zero-cost edges included.
C1_WalkReachesDestination ==
    /\ dvPc # "hung"
    /\ lsPc # "hung"
    /\ dvWritten =>
        \A n \in DOMAIN dvLines :
            (Src(n) \in DOMAIN dist /\ Dst(n) \in DOMAIN dist[Src(n)]
                /\ dist[Src(n)][Dst(n)] < INF)
            => /\ dvLines[n].kind = "hops"
               /\ Len(dvLines[n].path) - 1 <= Cardinality(DOMAIN dvNodes)
               /\ IsWalk(dvNodes, dvLines[n].path)
               /\ PathCost(dvNodes, dvLines[n].path) = dist[Src(n)][Dst(n)]
    /\ lsWritten =>
        \A n \in DOMAIN lsLines :
            (Src(n) \in DOMAIN routeCost /\ Dst(n) \in DOMAIN routeCost[Src(n)]
                /\ routeCost[Src(n)][Dst(n)] < INF)
            => /\ lsLines[n].kind = "hops"
               /\ Len(lsFullWalk(n)) - 1 <= Cardinality(DOMAIN lsNodes)
               /\ IsWalk(lsNodes, lsFullWalk(n))
               /\ PathCost(lsNodes, lsFullWalk(n)) = routeCost[Src(n)][Dst(n)]

\* C2: after every solver run, in both programs, every node i has
\* cost[i][i] = 0 and nextHop[i][i] = i, whatever the non-negative edge costs.
C2_SelfEntryKept ==
    /\ dvSolved => \A i \in DOMAIN dvNodes : dist[i][i] = 0 /\ nextHop[i][i] = i
    /\ lsSolved => \A i \in DOMAIN lsNodes : routeCost[i][i] = 0 /\ routeNext[i][i] = i

\* C3: when runDistanceVector returns, for every connected pair (i, k)
\* dist[i][k] is the shortest-path weight and nextHop[i][k] is a neighbour of i
\* that starts some shortest path from i to k; for every pair that is not
\* connected dist[i][k] is infinite and nextHop[i][k] is -1.
C3_DistanceVectorContract ==
    dvSolved =>
        \A i \in DOMAIN dvNodes : \A k \in DOMAIN dvNodes :
            IF Connected(dvNodes, i, k)
            THEN /\ dist[i][k] = ShortestDist(dvNodes, i, k)
                 /\ i # k => nextHop[i][k] \in FirstHops(dvNodes, i, k)
            ELSE dist[i][k] = INF /\ nextHop[i][k] = NONE

\* C4: on the same topology the two solvers compute the same cost for every
\* pair, and the same pairs are unreachable (infinite cost).
C4_CostsAgree ==
    (dvSolved /\ lsSolved /\ dvK = lsK) => dist = routeCost

\* Both solvers have run, after a change, on a topology where they agree on a
\* finite cost and differ on the next hop.
C4_Witness ==
    /\ dvSolved /\ lsSolved /\ dvK = lsK /\ dvK >= 1
    /\ \E i \in DOMAIN dvNodes : \E k \in DOMAIN dvNodes \ {i} :
        /\ dist[i][k] < INF
        /\ dist[i][k] = routeCost[i][k]
        /\ nextHop[i][k] # routeNext[i][k]

\* C5 (as claimed): in both programs the hop sequence of a trace line runs
\* from the source to the destination inclusive, and the cost reported is
\* cost[src][dst].
C5_HopsInclusiveBoth ==
    /\ dvWritten =>
        \A n \in DOMAIN dvLines : dvLines[n].kind = "hops" =>
            /\ dvLines[n].path[1] = Src(n)
            /\ dvLines[n].path[Len(dvLines[n].path)] = Dst(n)
            /\ dvLines[n].cost = dist[Src(n)][Dst(n)]
    /\ lsWritten =>
        \A n \in DOMAIN lsLines : lsLines[n].kind = "hops" =>
            /\ lsLines[n].path # <<>>
            /\ lsLines[n].path[1] = Src(n)
            /\ lsLines[n].path[Len(lsLines[n].path)] = Dst(n)
            /\ lsLines[n].cost = routeCost[Src(n)][Dst(n)]

\* C5 (amended): distvec's hop sequence runs from the source to the
\* destination inclusive; linkstate's is the same walk without the
\* destination (empty when source and destination are the same node): it
\* starts at the source, does not hold the destination, and its last node's
\* next hop is the destination.  Both report cost[src][dst].
C5_HopsPerProgram ==
    /\ dvWritten =>
        \A n \in DOMAIN dvLines : dvLines[n].kind = "hops" =>
            /\ dvLines[n].path[1] = Src(n)
            /\ dvLines[n].path[Len(dvLines[n].path)] = Dst(n)
            /\ \A m \in 1..(Len(dvLines[n].path) - 1) :
                   nextHop[dvLines[n].path[m]][Dst(n)] = dvLines[n].path[m + 1]
            /\ dvLines[n].cost = dist[Src(n)][Dst(n)]
    /\ lsWritten =>
        \A n \in DOMAIN lsLines : lsLines[n].kind = "hops" =>
            /\ ~InSeq(Dst(n), lsLines[n].path)
            /\ (Src(n) = Dst(n)) <=> (lsLines[n].path = <<>>)
            /\ lsFullWalk(n)[1] = Src(n)
            /\ \A m \in 1..Len(lsLines[n].path) :
                   routeNext[lsFullWalk(n)[m]][Dst(n)] = lsFullWalk(n)[m + 1]
            /\ lsLines[n].cost = routeCost[Src(n)][Dst(n)]

\* Both programs have written the trace line of a message whose route has
\* two hops: distvec lists three nodes, linkstate two.
C5_Witness ==
    /\ dvWritten /\ lsWritten /\ dvK = lsK
    /\ \E n \in DOMAIN dvLines \cap DOMAIN lsLines :
        /\ dvLines[n].kind = "hops" /\ Len(dvLines[n].path) = 3
        /\ lsLines[n].kind = "hops" /\ Len(lsLines[n].path) = 2
        /\ dvLines[n].cost = 2

\* C6: a message whose source or destination is not a node of the topology is
\* answered with the unreachable line, and neither program aborts on it.
C6_UnknownNodeUnreachable ==
    /\ dvPc # "aborted"
    /\ lsPc # "aborted"
    /\ dvWritten =>
        \A n \in DOMAIN dvLines :
            (Src(n) \notin DOMAIN dvNodes \/ Dst(n) \notin DOMAIN dvNodes)
            => dvLines[n].kind = "unreachable"
    /\ lsWritten =>
        \A n \in DOMAIN lsLines :
            (Src(n) \notin DOMAIN lsNodes \/ Dst(n) \notin DOMAIN lsNodes)
            => lsLines[n].kind = "unreachable"

\* C7: in every snapshot, a message between two known nodes that lie in
\* different components of the current topology gets the unreachable line in
\* both programs, also when an earlier topology connected them.
C7_DisconnectedUnreachable ==
    /\ dvWritten =>
        \A n \in DOMAIN dvLines :
            (Src(n) \in DOMAIN dvNodes /\ Dst(n) \in DOMAIN dvNodes
                /\ ~Connected(dvNodes, Src(n), Dst(n)))
            => dvLines[n].kind = "unreachable"
    /\ lsWritten =>
        \A n \in DOMAIN lsLines :
            (Src(n) \in DOMAIN lsNodes /\ Dst(n) \in DOMAIN lsNodes
                /\ ~Connected(lsNodes, Src(n), Dst(n)))
            => lsLines[n].kind = "unreachable"

\* Both programs have answered, after a change, a message between two nodes
\* that the initial topology connected and the current one does not.
C7_Witness ==
    /\ dvWritten /\ lsWritten /\ dvK = lsK /\ dvK >= 1
    /\ dvLines # <<>> /\ lsLines # <<>>
    /\ Src(1) \in DOMAIN topo0 /\ Dst(1) \in DOMAIN topo0
    /\ Connected(topo0, Src(1), Dst(1))
    /\ ~Connected(dvNodes, Src(1), Dst(1))
    /\ dvLines[1].kind = "unreachable"
    /\ lsLines[1].kind = "unreachable"

\* C8: after k changes each program has written k + 1 snapshots, the last of
\* them the solver's result, computed from scratch, on the initial topology
\* with the first k changes applied in file order; a finished program has
\* written one snapshot more than the change file has lines.
C8_SnapshotPerChange ==
    /\ dvSolved =>
        LET t == Fold(topo0, changes, dvK)
            r == runDistanceVector(t, InitDist(t), InitNextHop(t))
        IN  /\ dvSnaps = dvK + 1
            /\ dvNodes = t
            /\ dist = r.dist
            /\ nextHop = r.nextHop
    /\ lsSolved =>
        LET t == Fold(topo0, changes, lsK)
            r == writeForwardingTable(t, EmptyMap, EmptyMap)
        IN  /\ lsSnaps = lsK + 1
            /\ lsNodes = t
            /\ routeNext = r.routeNext
            /\ routeCost = r.routeCost
    /\ dvPc = "done" => dvSnaps = Len(changes) + 1
    /\ lsPc = "done" => lsSnaps = Len(changes) + 1

\* Both programs have finished a change file of two lines whose order
\* matters, the second undoing a route the first one left.
C8_Witness ==
    /\ dvPc = "done" /\ lsPc = "done"
    /\ Len(changes) = 2
    /\ applyChange(applyChange(topo0, changes[2]), changes[1]) # dvNodes
    /\ dvSnaps = 3 /\ lsSnaps = 3
    /\ \E i \in DOMAIN topo0 : \E k \in DOMAIN topo0 :
        Connected(topo0, i, k) /\ dist[i][k] = INF

\* C9 (as claimed): whenever the shortest paths from i to k start with two or
\* more neighbours of i, both solvers choose the neighbour with the smallest
\* id, whatever the hop counts of the paths.
C9_SmallestFirstHopBoth ==
    /\ dvSolved =>
        \A i \in DOMAIN dvNodes : \A k \in DOMAIN dvNodes \ {i} :
            Cardinality(FirstHops(dvNodes, i, k)) >= 2
            => nextHop[i][k] = SetMin(FirstHops(dvNodes, i, k))
    /\ lsSolved =>
        \A i \in DOMAIN lsNodes : \A k \in DOMAIN lsNodes \ {i} :
            Cardinality(FirstHops(lsNodes, i, k)) >= 2
            => routeNext[i][k] = SetMin(FirstHops(lsNodes, i, k))

\* C9 (amended): the distance-vector solver chooses, among the neighbours h of
\* i with cost(i,h) + cost[h][k] = cost[i][k], the one with the smallest id,
\* whatever the hop counts; the link-state solver chooses a neighbour that
\* starts a shortest path from i to k, which need not be the smallest such.
C9_TieBreakPerSolver ==
    /\ dvSolved =>
        \A i \in DOMAIN dvNodes : \A k \in DOMAIN dvNodes \ {i} :
            Connected(dvNodes, i, k)
            => nextHop[i][k] = SetMin(Candidates(dvNodes, i, k))
    /\ lsSolved =>
        \A i \in DOMAIN lsNodes : \A k \in DOMAIN lsNodes \ {i} :
            Connected(lsNodes, i, k)
            => routeNext[i][k] \in FirstHops(lsNodes, i, k)

\* Both solvers have run on a topology with edge costs above zero where two
\* shortest paths of different hop counts tie: distvec takes the smaller
\* first hop, linkstate the other one.
C9_Witness ==
    /\ dvSolved /\ lsSolved /\ dvK = lsK
    /\ Positive(dvNodes)
    /\ \E i \in DOMAIN dvNodes : \E k \in DOMAIN dvNodes \ {i} :
        /\ Cardinality(FirstHops(dvNodes, i, k)) >= 2
        /\ k \in FirstHops(dvNodes, i, k)
        /\ nextHop[i][k] = SetMin(FirstHops(dvNodes, i, k))
        /\ routeNext[i][k] # SetMin(FirstHops(lsNodes, i, k))

\* C10: a removal change for a pair that has no edge changes nothing, in both
\* programs: no node is created, no adjacency changes, and the snapshot written
\* after it is the snapshot written before it.
C10_RemovalOfNoEdgeIsNoOp ==
    [][/\ (/\ dvPc = "change" /\ dvPc' = "msgs"
           /\ changes[dvK + 1][3] = REMOVE
           /\ ~HasEdge(dvNodes, changes[dvK + 1][1], changes[dvK + 1][2]))
          => (dvNodes' = dvNodes /\ dist' = dist /\ nextHop' = nextHop)
       /\ (/\ lsPc = "change" /\ lsPc' = "msgs"
           /\ changes[lsK + 1][3] = REMOVE
           /\ ~HasEdge(lsNodes, changes[lsK + 1][1], changes[lsK + 1][2]))
          => (lsNodes' = lsNodes /\ routeNext' = routeNext /\ routeCost' = routeCost)]_vars

====
